---- MODULE Spec2Model ----
(***************************************************************************)
(* The pangram-webui history store: the Flask service (src/main.py) and    *)
(* the command-line inspector (src/cli.py) over one SQLite table.          *)
(*                                                                         *)
(* A text is a sequence of one-character strings; a creation timestamp is  *)
(* the sequence of number fields datetime.isoformat() prints, compared the *)
(* way SQLite compares a TEXT column (field by field, a prefix first).     *)
(* Each SQL statement (with the commit that follows it) is one atomic      *)
(* step: SQLite serialises writers and a reader sees committed rows only.  *)
(* A statement that fails because the file cannot be opened or stays       *)
(* locked (the storage-unavailable condition) is not modelled. The wall    *)
(* clock never steps back; two reads of it may give the same value.        *)
(* Every process runs once: two web requests in POST /analyze, two CLI     *)
(* delete commands, one stats operation, one listing or search.            *)
(***************************************************************************)
EXTENDS Integers, Sequences, FiniteSets, TLC

VARIABLES
    store,    \* the rows of table analyses (committed content of the file)
    seq,      \* sqlite_sequence: the largest id AUTOINCREMENT ever assigned
    clock,    \* the wall clock datetime.now() reads, in microsecond ticks
    req,      \* per web request context: position and locals of analyze(), with
              \* its history: calls (detection calls made), wrote (rows inserted)
    cli,      \* per CLI process: position and locals of cmd_delete()
    stats,    \* the stats operation: position and locals of get_stats()/cmd_stats()
    out,      \* the rows the last listing or search statement returned
    calc,     \* the credit calculator's input and the two copies' results
    issued    \* history: every id the store assigned, in order of assignment

vars == <<store, seq, clock, req, cli, stats, out, calc, issued>>

(* ------------------------------ bounds ------------------------------- *)

MaxClock == 2
MaxTextLen == 2
MaxLimit == 2
MaxRows == 2
MaxWordCount == 2100

\* the clock ticks that make a second (a scaled-down microsecond)
TicksPerSecond == MaxClock

\* LIMIT 100 of GET /history
HistoryLimit == 100

\* two web request contexts and two CLI processes, each run once
Requests == {"r1", "r2"}
Clis == {"c1", "c2"}
Chars == {" ", "a"}
RawTexts == UNION {[1..n -> Chars] : n \in 0..MaxTextLen}
Limits == -1..MaxLimit

Max(a, b) == IF a >= b THEN a ELSE b
Min(a, b) == IF a <= b THEN a ELSE b

(* ------------------------- text and word count ------------------------ *)

IsSpace(c) == c = " "

RECURSIVE lstrip(_)
lstrip(s) ==
    IF s = <<>> THEN s
    ELSE IF IsSpace(Head(s)) THEN lstrip(Tail(s)) ELSE s

RECURSIVE rstrip(_)
rstrip(s) ==
    IF s = <<>> THEN s
    ELSE IF IsSpace(s[Len(s)]) THEN rstrip(SubSeq(s, 1, Len(s) - 1)) ELSE s

stripNone(s) == s

\* str.strip(): leading and trailing whitespace removed
strip(s) == rstrip(lstrip(s))

\* the length of the leading run of non-space characters of s
RECURSIVE wordLen(_)
wordLen(s) ==
    IF s = <<>> THEN 0
    ELSE IF IsSpace(Head(s)) THEN 0 ELSE 1 + wordLen(Tail(s))

\* str.split(): the maximal runs of non-space characters, in order
RECURSIVE split(_)
split(s) ==
    LET t == lstrip(s)
        n == wordLen(t)
    IN  IF t = <<>> THEN <<>>
        ELSE <<SubSeq(t, 1, n)>> \o split(SubSeq(t, n + 1, Len(t)))

count_words(text) == Len(split(text))

(* --------------------------- credit calculator ------------------------ *)

calculate_credits_floor(word_count) ==
    IF word_count = 0 THEN 0 ELSE Max(1, word_count \div 1000)

\* main.py
calculate_credits(word_count) ==
    IF word_count = 0 THEN 0 ELSE Max(1, (word_count + 999) \div 1000)

\* cli.py
cli_calculate_credits(word_count) ==
    IF word_count = 0 THEN 0 ELSE Max(1, (word_count + 999) \div 1000)

(* ------------------------------ timestamps ---------------------------- *)

\* datetime.isoformat(): the seconds, then the microseconds unless they are 0
isoformat(t) ==
    LET s == t \div TicksPerSecond
        u == t % TicksPerSecond
    IN  IF u = 0 THEN <<s>> ELSE <<s, u>>

\* SQLite's order on TEXT values: the first differing field decides, and a
\* proper prefix sorts first
RECURSIVE TextLess(_, _)
TextLess(a, b) ==
    IF b = <<>> THEN FALSE
    ELSE IF a = <<>> THEN TRUE
    ELSE IF Head(a) # Head(b) THEN Head(a) < Head(b)
    ELSE TextLess(Tail(a), Tail(b))

Timestamps == {isoformat(t) : t \in 0..MaxClock}

(* ------------------------------- the table ---------------------------- *)

RowIds(S) == {row.id : row \in S}

RECURSIVE SetMax(_)
SetMax(S) ==
    IF S = {} THEN 0
    ELSE LET x == CHOOSE y \in S : TRUE IN Max(x, SetMax(S \ {x}))

NextRowidNoAutoincrement == SetMax(RowIds(store)) + 1

\* id INTEGER PRIMARY KEY AUTOINCREMENT: one more than the largest id the
\* table ever held
NextRowid == Max(seq, SetMax(RowIds(store))) + 1

\* a row of table analyses (the columns the operations read)
Row(id, created_at, text, word_count, credits) ==
    [id |-> id, created_at |-> created_at, text |-> text,
     word_count |-> word_count, credits |-> credits]

NoRequest ==
    [pc |-> "idle", raw |-> <<>>, text |-> <<>>, word_count |-> 0, credits |-> 0,
     created_at |-> <<>>, last_insert_rowid |-> 0, status |-> 0, id |-> 0,
     calls |-> 0, wrote |-> {}]

NoCli == [pc |-> "idle", id |-> 0, rowcount |-> 0, report |-> ""]

NoStats ==
    [pc |-> "idle", kind |-> "", total_analyses |-> 0, total_words |-> 0,
     first_analysis |-> <<>>, last_analysis |-> <<>>, rows |-> <<>>,
     total_credits |-> 0]

NoOut == [op |-> "", limit |-> 0, query |-> <<>>, rows |-> <<>>]

NoCalc ==
    [pc |-> "idle", word_count |-> 0, credits |-> 0, cli_credits |-> 0,
     below |-> 0]

\* init_db() on a new file: the empty table
Init ==
    /\ store = {}
    /\ seq = 0
    /\ clock = 0
    /\ req = [r \in Requests |-> NoRequest]
    /\ cli = [p \in Clis |-> NoCli]
    /\ stats = NoStats
    /\ out = NoOut
    /\ calc = NoCalc
    /\ issued = <<>>

(* -------------------------------- clock ------------------------------- *)

Tick ==
    /\ clock < MaxClock
    /\ clock' = clock + 1
    /\ UNCHANGED <<store, seq, req, cli, stats, out, calc, issued>>

(* ------------------------- POST /analyze (main.py) -------------------- *)

\* line 76: data = request.get_json()
Receive(r, raw) ==
    /\ req[r].pc = "idle"
    /\ req' = [req EXCEPT ![r] = [@ EXCEPT !.pc = "validate", !.raw = raw]]
    /\ UNCHANGED <<store, seq, clock, cli, stats, out, calc, issued>>

\* lines 77-86: the text is stripped and checked, the counts are computed;
\* the request body is not read again once the text is accepted
Validate(r) ==
    /\ req[r].pc = "validate"
    /\ LET text == strip(req[r].raw)
       IN  IF text = <<>>
           THEN req' = [req EXCEPT ![r] =
                    [@ EXCEPT !.pc = "done", !.text = text, !.status = 400]]
           ELSE req' = [req EXCEPT ![r] =
                    [@ EXCEPT !.pc = "predict", !.raw = <<>>, !.text = text,
                              !.word_count = count_words(text),
                              !.credits = calculate_credits(count_words(text))]]
    /\ UNCHANGED <<store, seq, clock, cli, stats, out, calc, issued>>

PredictFailPartialRow(r) ==
    /\ req[r].pc = "predict"
    /\ LET row == Row(NextRowid, isoformat(clock), req[r].text,
                      req[r].word_count, req[r].credits)
       IN  /\ store' = store \cup {row}
           /\ seq' = row.id
           /\ issued' = Append(issued, row.id)
           /\ req' = [req EXCEPT ![r] =
                    [@ EXCEPT !.pc = "done", !.calls = @ + 1, !.status = 500,
                              !.wrote = @ \cup {row}]]
    /\ UNCHANGED <<clock, cli, stats, out, calc>>

\* lines 89, 135-136: pangram.predict raises; the handler answers 500
PredictFail(r) ==
    /\ req[r].pc = "predict"
    /\ req' = [req EXCEPT ![r] =
             [@ EXCEPT !.pc = "done", !.calls = @ + 1, !.status = 500]]
    /\ UNCHANGED <<store, seq, clock, cli, stats, out, calc, issued>>

\* lines 89-112: pangram.predict returns; the INSERT's arguments are
\* evaluated, datetime.now().isoformat() among them
PredictOk(r) ==
    /\ req[r].pc = "predict"
    /\ req' = [req EXCEPT ![r] =
             [@ EXCEPT !.pc = "insert", !.calls = @ + 1,
                       !.created_at = isoformat(clock)]]
    /\ UNCHANGED <<store, seq, clock, cli, stats, out, calc, issued>>

\* lines 93-114: INSERT INTO analyses ... ; db.commit()
Insert(r) ==
    /\ req[r].pc = "insert"
    /\ LET row == Row(NextRowid, req[r].created_at, req[r].text,
                      req[r].word_count, req[r].credits)
       IN  /\ store' = store \cup {row}
           /\ seq' = row.id
           /\ issued' = Append(issued, row.id)
           /\ req' = [req EXCEPT ![r] =
                    [@ EXCEPT !.pc = "rowid", !.last_insert_rowid = row.id,
                              !.wrote = @ \cup {row}]]
    /\ UNCHANGED <<clock, cli, stats, out, calc>>

LastInsertRowidOfFile(r) == seq

\* last_insert_rowid(): the id of the last row inserted on this connection
LastInsertRowid(r) == req[r].last_insert_rowid

\* lines 115-134: SELECT last_insert_rowid(); the 200 response
Respond(r) ==
    /\ req[r].pc = "rowid"
    /\ req' = [req EXCEPT ![r] =
             [@ EXCEPT !.pc = "done", !.id = LastInsertRowid(r), !.status = 200]]
    /\ UNCHANGED <<store, seq, clock, cli, stats, out, calc, issued>>

(* ----------------------------- cli.py delete --------------------------- *)

\* lines 181-188: SELECT id FROM analyses WHERE id = ?; the force flag
DeleteCheck(p, id, force) ==
    /\ cli[p].pc = "idle"
    /\ cli' = [cli EXCEPT ![p] =
             IF id \notin RowIds(store)
             THEN [@ EXCEPT !.pc = "done", !.id = id, !.report = "not found"]
             ELSE [@ EXCEPT !.pc = IF force THEN "delete" ELSE "confirm",
                            !.id = id]]
    /\ UNCHANGED <<store, seq, clock, req, stats, out, calc, issued>>

\* lines 189-192: the confirmation prompt
DeleteConfirm(p, confirm) ==
    /\ cli[p].pc = "confirm"
    /\ cli' = [cli EXCEPT ![p] =
             IF confirm \notin {"y", "Y"}
             THEN [@ EXCEPT !.pc = "done", !.report = "cancelled"]
             ELSE [@ EXCEPT !.pc = "delete"]]
    /\ UNCHANGED <<store, seq, clock, req, stats, out, calc, issued>>

DeleteUpTo(id) == {row \in store : row.id <= id}

\* the rows DELETE FROM analyses WHERE id = ? removes
DeleteWhere(id) == {row \in store : row.id = id}

\* lines 194-196: DELETE ... ; db.commit(); print("Deleted ...")
DeleteExec(p) ==
    /\ cli[p].pc = "delete"
    /\ store' = store \ DeleteWhere(cli[p].id)
    /\ cli' = [cli EXCEPT ![p] =
             [@ EXCEPT !.pc = "done",
                       !.rowcount = Cardinality(DeleteWhere(cli[p].id)),
                       !.report = "deleted"]]
    /\ UNCHANGED <<seq, clock, req, stats, out, calc, issued>>

(* ---------------------------- specification --------------------------- *)

DeleteIds == 1..Cardinality(Requests)

Next ==
    \/ Tick
    \/ \E r \in Requests, raw \in RawTexts : Receive(r, raw)
    \/ \E r \in Requests : Validate(r)
    \/ \E r \in Requests : PredictFail(r)
    \/ \E r \in Requests : PredictOk(r)
    \/ \E r \in Requests : Insert(r)
    \/ \E r \in Requests : Respond(r)
    \/ \E p \in Clis, id \in DeleteIds, force \in BOOLEAN : DeleteCheck(p, id, force)
    \/ \E p \in Clis, confirm \in {"y", "Y", "n", ""} : DeleteConfirm(p, confirm)
    \/ \E p \in Clis : DeleteExec(p)

Spec == Init /\ [][Next]_vars

(* ------------------- GET /stats (main.py), stats (cli.py) -------------- *)

RECURSIVE SumWords(_)
SumWords(S) ==
    IF S = {} THEN 0
    ELSE LET row == CHOOSE x \in S : TRUE IN row.word_count + SumWords(S \ {row})

\* MIN(created_at), MAX(created_at): NULL (the empty text here) on no rows
MinCreatedAt(S) ==
    IF S = {} THEN <<>>
    ELSE (CHOOSE row \in S :
            \A other \in S : ~TextLess(other.created_at, row.created_at)).created_at

MaxCreatedAt(S) ==
    IF S = {} THEN <<>>
    ELSE (CHOOSE row \in S :
            \A other \in S : ~TextLess(row.created_at, other.created_at)).created_at

\* SELECT word_count FROM analyses: the word counts in rowid order
RECURSIVE WordCounts(_)
WordCounts(S) ==
    IF S = {} THEN <<>>
    ELSE LET row == CHOOSE x \in S : \A y \in S : x.id <= y.id
         IN  <<row.word_count>> \o WordCounts(S \ {row})

\* sum(calculate_credits(r["word_count"]) for r in rows), by the copy of
\* calculate_credits of the file the operation is in
RECURSIVE SumCredits(_, _)
SumCredits(kind, ws) ==
    IF ws = <<>> THEN 0
    ELSE (IF kind = "cli" THEN cli_calculate_credits(Head(ws))
          ELSE calculate_credits(Head(ws))) + SumCredits(kind, Tail(ws))

RECURSIVE SumSeq(_)
SumSeq(ws) == IF ws = <<>> THEN 0 ELSE Head(ws) + SumSeq(Tail(ws))

\* main.py lines 215-223, cli.py lines 26-34: SELECT COUNT(*), SUM(word_count)
\* (the CLI also selects MIN and MAX of created_at)
StatsCount(kind) ==
    /\ stats.pc = "idle"
    /\ stats' = [stats EXCEPT
            !.pc = "rows", !.kind = kind,
            !.total_analyses = Cardinality(store),
            !.total_words = SumWords(store),
            !.first_analysis = IF kind = "cli" THEN MinCreatedAt(store) ELSE <<>>,
            !.last_analysis = IF kind = "cli" THEN MaxCreatedAt(store) ELSE <<>>]
    /\ UNCHANGED <<store, seq, clock, req, cli, out, calc, issued>>

\* main.py lines 226-235, cli.py lines 37-46: SELECT word_count FROM analyses
\* and the sum of the rows' credits
StatsCredits ==
    /\ stats.pc = "rows"
    /\ stats' = [stats EXCEPT
            !.pc = "done", !.rows = WordCounts(store),
            !.total_credits = SumCredits(stats.kind, WordCounts(store))]
    /\ UNCHANGED <<store, seq, clock, req, cli, out, calc, issued>>

NextStats ==
    \/ Next
    \/ \E kind \in {"web", "cli"} : StatsCount(kind)
    \/ StatsCredits

SpecStats == Init /\ [][NextStats]_vars

(* --------------- GET /history (main.py), list and search (cli.py) ------ *)

\* the permutations of the rows of S
Arrangements(S) ==
    {q \in [1..Cardinality(S) -> S] : \A i, j \in DOMAIN q : q[i] = q[j] => i = j}

OrderByCreatedAtAsc(S) ==
    {q \in Arrangements(S) :
        \A i \in 1..(Len(q) - 1) : ~TextLess(q[i + 1].created_at, q[i].created_at)}

\* ORDER BY created_at DESC: SQLite leaves the order of equal keys open
OrderByCreatedAtDesc(S) ==
    {q \in Arrangements(S) :
        \A i \in 1..(Len(q) - 1) : ~TextLess(q[i].created_at, q[i + 1].created_at)}

\* LIMIT n: the first n rows; SQLite puts no bound on a negative n
LimitRows(q, n) == IF n < 0 THEN q ELSE SubSeq(q, 1, Min(n, Len(q)))

\* text LIKE '%query%' for a query without wildcard characters
Like(text, query) ==
    \E i \in 0..(Len(text) - Len(query)) :
        SubSeq(text, i + 1, i + Len(query)) = query

\* main.py lines 142-152 (out holds the whole rows, not only the columns
\* each statement selects)
get_history ==
    /\ out = NoOut
    /\ \E q \in OrderByCreatedAtDesc(store) :
         out' = [op |-> "history", limit |-> HistoryLimit, query |-> <<>>,
                 rows |-> LimitRows(q, HistoryLimit)]
    /\ UNCHANGED <<store, seq, clock, req, cli, stats, calc, issued>>

\* cli.py lines 51-61
cmd_list(limit) ==
    /\ out = NoOut
    /\ \E q \in OrderByCreatedAtDesc(store) :
         out' = [op |-> "list", limit |-> limit, query |-> <<>>,
                 rows |-> LimitRows(q, limit)]
    /\ UNCHANGED <<store, seq, clock, req, cli, stats, calc, issued>>

\* cli.py lines 150-161
cmd_search(query, limit) ==
    /\ out = NoOut
    /\ \E q \in OrderByCreatedAtDesc({row \in store : Like(row.text, query)}) :
         out' = [op |-> "search", limit |-> limit, query |-> query,
                 rows |-> LimitRows(q, limit)]
    /\ UNCHANGED <<store, seq, clock, req, cli, stats, calc, issued>>

\* the texts analyze() stores: stripped and not empty
StoredTexts == {strip(raw) : raw \in RawTexts} \ {<<>>}

\* the contents of the table with the ids D: one row per id
TablesOver(D) ==
    {{Row(id, f[id][1], f[id][2], count_words(f[id][2]),
          calculate_credits(count_words(f[id][2]))) : id \in D} :
        f \in [D -> Timestamps \X StoredTexts]}

\* the table as earlier runs of the service may have left it, ids up to n
Tables(n) == UNION {TablesOver(D) : D \in SUBSET (1..n)}

InitList ==
    /\ store \in Tables(MaxRows)
    /\ seq = SetMax(RowIds(store))
    /\ clock = MaxClock
    /\ req = [r \in Requests |-> NoRequest]
    /\ cli = [p \in Clis |-> NoCli]
    /\ stats = NoStats
    /\ out = NoOut
    /\ calc = NoCalc
    /\ issued = [i \in 1..seq |-> i]

\* the search queries: the texts of at most one character
Queries == {query \in RawTexts : Len(query) <= 1}

NextList ==
    \/ get_history
    \/ \E limit \in Limits : cmd_list(limit)
    \/ \E query \in Queries, limit \in Limits : cmd_search(query, limit)

SpecList == InitList /\ [][NextList]_vars

(* ------------------------ the credit calculator ------------------------ *)

InitCredits ==
    /\ store = {}
    /\ seq = 0
    /\ clock = 0
    /\ req = [r \in Requests |-> NoRequest]
    /\ cli = [p \in Clis |-> NoCli]
    /\ stats = NoStats
    /\ out = NoOut
    /\ calc \in {[NoCalc EXCEPT !.word_count = w] : w \in 0..MaxWordCount}
    /\ issued = <<>>

\* both copies applied to the word count, and main.py's to the count below it
Calculate ==
    /\ calc.pc = "idle"
    /\ calc' = [calc EXCEPT
            !.pc = "done",
            !.credits = calculate_credits(calc.word_count),
            !.cli_credits = cli_calculate_credits(calc.word_count),
            !.below = IF calc.word_count = 0 THEN 0
                      ELSE calculate_credits(calc.word_count - 1)]
    /\ UNCHANGED <<store, seq, clock, req, cli, stats, out, issued>>

NextCredits == Calculate

SpecCredits == InitCredits /\ [][NextCredits]_vars

(* ------------------------------ the claims ----------------------------- *)

IsBlank(s) == \A i \in 1..Len(s) : s[i] = " "

\* text is raw without its leading and trailing spaces
IsTrimOf(text, raw) ==
    \E i, j \in 0..Len(raw) :
        /\ i + Len(text) + j = Len(raw)
        /\ \A k \in 1..i : raw[k] = " "
        /\ \A k \in 1..j : raw[Len(raw) - k + 1] = " "
        /\ SubSeq(raw, i + 1, i + Len(text)) = text
        /\ text # <<>> => (text[1] # " " /\ text[Len(text)] # " ")

\* the places of s where a word starts
WordStarts(s) == {i \in 1..Len(s) : s[i] # " " /\ (i = 1 \/ s[i - 1] = " ")}

\* c is the least number of thousands that hold w words
IsCeilOfThousands(c, w) == c * 1000 >= w /\ (c - 1) * 1000 < w

NonIncreasing(rows) ==
    \A i \in 1..(Len(rows) - 1) :
        ~TextLess(rows[i].created_at, rows[i + 1].created_at)

\* C1: a submit request whose text is empty or only whitespace is answered
\* with 400 at once: the step that validates it calls the detection API not
\* once and leaves the table as it was, and a request answered 400 never
\* called the API and never wrote a row.
C1_BlankTextRejected ==
    /\ [](\A r \in Requests :
            req[r].status = 400 =>
                /\ req[r].pc = "done"
                /\ req[r].calls = 0
                /\ req[r].wrote = {})
    /\ [][\A r \in Requests :
            (req[r].pc = "validate" /\ IsBlank(req[r].raw) /\ req'[r] # req[r]) =>
                /\ req'[r].pc = "done"
                /\ req'[r].status = 400
                /\ req'[r].calls = 0
                /\ store' = store
                /\ seq' = seq]_vars

\* a request with a whitespace-only text was answered 400 beside a stored row
C1_Witness ==
    \E r \in Requests :
        /\ req[r].status = 400
        /\ req[r].raw = <<" ", " ">>
        /\ store # {}

\* C2: when the detection call fails the request is answered with 500 after
\* exactly one call, the failing step leaves the table (and so the number of
\* analyses) as it was, and the request never wrote a row.
C2_FailureWritesNothing ==
    /\ [](\A r \in Requests :
            req[r].status = 500 =>
                /\ req[r].pc = "done"
                /\ req[r].calls = 1
                /\ req[r].wrote = {})
    /\ [][\A r \in Requests :
            (req[r].status # 500 /\ req'[r].status = 500) =>
                /\ store' = store
                /\ seq' = seq
                /\ Cardinality(store') = Cardinality(store)]_vars

\* one request failed in the detection call while the other's row is stored
C2_Witness ==
    \E r \in Requests :
        /\ req[r].status = 500
        /\ req[r].calls = 1
        /\ Cardinality(store) = 1

\* C3: calculate_credits gives 0 for 0 words and otherwise the ceiling of
\* words / 1000, at least 1; it does not decrease from one word count to the
\* next; 1000 -> 1, 1001 -> 2, 2000 -> 2; main.py's and cli.py's copies agree.
C3_Credits ==
    calc.pc = "done" =>
        /\ calc.word_count = 0 => calc.credits = 0
        /\ calc.word_count > 0 =>
            /\ calc.credits >= 1
            /\ IsCeilOfThousands(calc.credits, calc.word_count)
        /\ calc.below <= calc.credits
        /\ calc.word_count = 1000 => calc.credits = 1
        /\ calc.word_count = 1001 => calc.credits = 2
        /\ calc.word_count = 2000 => calc.credits = 2
        /\ calc.cli_credits = calc.credits

C3_Witness == calc.pc = "done" /\ calc.word_count = 1001 /\ calc.credits = 2

\* C4: the ids of the stored rows are unique, every id the store assigned is
\* greater than all it assigned before, so that a deleted row's id (the
\* highest one too) is never given to a later row.
C4_IdsNeverReused ==
    /\ \A a, b \in store : a.id = b.id => a = b
    /\ \A i, j \in 1..Len(issued) : i < j => issued[i] < issued[j]
    /\ RowIds(store) \subseteq {issued[i] : i \in 1..Len(issued)}

\* the first row was deleted by a CLI process and a second row is stored
C4_Witness ==
    /\ Len(issued) = 2
    /\ RowIds(store) = {issued[2]}
    /\ \E p \in Clis :
        cli[p].report = "deleted" /\ cli[p].rowcount = 1 /\ cli[p].id = issued[1]

\* C5: delete reports a deletion only when this invocation removed the row.
C5_ReportsRemoval ==
    \A p \in Clis : cli[p].report = "deleted" => cli[p].rowcount = 1

\* C6: deleting an id that is not stored reports not-found and leaves the
\* table as it was, each time it is done; deleting a stored id removes the
\* row of that id and no other.
C6_DeleteExact ==
    [][\A p \in Clis :
        /\ (cli[p].pc = "idle" /\ cli'[p].pc # "idle"
                /\ cli'[p].id \notin RowIds(store)) =>
            /\ cli'[p].pc = "done"
            /\ cli'[p].report = "not found"
            /\ store' = store
            /\ seq' = seq
        /\ (cli[p].pc = "delete" /\ cli'[p].pc # "delete") =>
            /\ cli'[p].pc = "done"
            /\ store' = {row \in store : row.id # cli[p].id}
            /\ Cardinality(store \ store') <= 1
            /\ seq' = seq]_vars

\* two invocations in a row found the same id missing, beside a stored row
C6_Witness ==
    /\ store # {}
    /\ \E p, q \in Clis :
        /\ p # q
        /\ cli[p].report = "not found"
        /\ cli[q].report = "not found"
        /\ cli[p].id = cli[q].id

\* C7: a request whose detection call succeeded has created exactly one row,
\* which holds its trimmed text, the number of words of that text and their
\* credits, and the id it answers with is that row's id; no other request
\* has created a row. The text a request works with is its body's text
\* without the leading and trailing whitespace.
C7_OneRecordPerSuccess ==
    /\ [](\A r \in Requests :
            /\ req[r].status = 200 =>
                /\ req[r].calls = 1
                /\ \E row \in req[r].wrote :
                    /\ req[r].wrote = {row}
                    /\ row.id = req[r].id
                    /\ row.text = req[r].text
                    /\ row.word_count = Cardinality(WordStarts(req[r].text))
                    /\ row.word_count > 0
                    /\ IsCeilOfThousands(row.credits, row.word_count)
                    /\ req[r].word_count = row.word_count
                    /\ req[r].credits = row.credits
            /\ req[r].pc = "rowid" => Cardinality(req[r].wrote) = 1
            /\ req[r].status # 200 /\ req[r].pc # "rowid" => req[r].wrote = {})
    /\ [][\A r \in Requests :
            (req[r].pc = "validate" /\ req'[r].pc # "validate") =>
                IsTrimOf(req'[r].text, req[r].raw)]_vars

\* two requests ran interleaved (the one that stamped first inserted last),
\* both were answered 200 and a CLI process deleted a row meanwhile
C7_Witness ==
    /\ \E r, s \in Requests :
        /\ req[r].status = 200
        /\ req[s].status = 200
        /\ req[r].id > req[s].id
        /\ TextLess(req[r].created_at, req[s].created_at)
    /\ \E p \in Clis : cli[p].report = "deleted"

\* C8 as stated: for every limit, the listings and the search return at most
\* limit rows, in non-increasing order of created_at, and a listing holds the
\* rows with the latest timestamps.
C8_AtMostLimitRows ==
    out.op # "" =>
        /\ Len(out.rows) <= out.limit
        /\ NonIncreasing(out.rows)
        /\ out.op \in {"history", "list"} =>
            \A row \in store :
                (\A i \in 1..Len(out.rows) : out.rows[i] # row) =>
                    \A i \in 1..Len(out.rows) :
                        ~TextLess(out.rows[i].created_at, row.created_at)

\* C8, amended: for every limit that is not negative they return at most
\* limit rows (for a negative limit, every row the statement matches); the
\* rows are distinct rows of the table in non-increasing order of created_at;
\* a listing returns min(limit, number of rows) rows, none of them earlier
\* than a row it leaves out.
C8_OrderedAndLimited ==
    out.op # "" =>
        /\ out.limit >= 0 => Len(out.rows) <= out.limit
        /\ NonIncreasing(out.rows)
        /\ \A i \in 1..Len(out.rows) : out.rows[i] \in store
        /\ \A i, j \in 1..Len(out.rows) : out.rows[i] = out.rows[j] => i = j
        /\ out.op \in {"history", "list"} =>
            /\ Len(out.rows) =
                IF out.limit < 0 \/ out.limit > Cardinality(store)
                THEN Cardinality(store) ELSE out.limit
            /\ \A row \in store :
                (\A i \in 1..Len(out.rows) : out.rows[i] # row) =>
                    \A i \in 1..Len(out.rows) :
                        ~TextLess(out.rows[i].created_at, row.created_at)

\* list -n 1 on two rows with different timestamps returned the later one
C8_Witness ==
    /\ out.op = "list"
    /\ out.limit = 1
    /\ Len(out.rows) = 1
    /\ \E row \in store : TextLess(row.created_at, out.rows[1].created_at)

\* C9: the stats describe one set of rows: total_analyses is the number of
\* the rows whose credits were summed, total_words the sum of their word
\* counts; on an empty table all three are 0 and the timestamps absent.
C9_StatsOfOneSnapshot ==
    stats.pc = "done" =>
        /\ stats.total_analyses = Len(stats.rows)
        /\ stats.total_words = SumSeq(stats.rows)
        /\ stats.total_analyses = 0 =>
            /\ stats.total_words = 0
            /\ stats.total_credits = 0
            /\ stats.first_analysis = <<>>
            /\ stats.last_analysis = <<>>

\* C10: of two stored rows the one with the larger id was not created
\* earlier.
C10_IdsFollowCreationTime ==
    \A a, b \in store :
        a.id > b.id => ~TextLess(a.created_at, b.created_at)

====
